---------------------------- MODULE Spec2Model ----------------------------
(***************************************************************************)
(* A model of the Scheme interpreter of src/lab.py: tokenize, parse,       *)
(* evaluate, the Frame chain, user Functions and the built-in procedures.  *)
(*                                                                         *)
(* Representation.                                                         *)
(*   - a source text is a sequence of one-character strings, a token is a  *)
(*     string;                                                             *)
(*   - an expression tree is Num(n) (a Python int), Sym(s) (a Python str)  *)
(*     or List(<<...>>) (a Python list);                                   *)
(*   - a runtime value is a number [k |-> "num"] (an int, or a float when  *)
(*     fl is TRUE, kept as the exact reduced fraction num/den: rounding of *)
(*     floats is not modelled), a Bool, a Str (the special-form markers    *)
(*     are Python strings), a Native procedure, a Fn (class Function), a   *)
(*     Pair;                                                               *)
(*   - the heap is the sequence of all Frame objects created so far, a     *)
(*     Frame is referred to by its index, parent 0 is None;                *)
(*   - an operation's outcome carries st: "ok", or the name of the Python   *)
(*     exception that left it.                                             *)
(***************************************************************************)
EXTENDS Integers, Sequences, FiniteSets, TLC

VARIABLES
    text,      \* tokenizer session: the source text given to tokenize
    tokens,    \* tokenizer session: the outcome of tokenize(text)
    ptokens,   \* parser session: the token list given to parse
    presult,   \* parser session: the outcome of parse(ptokens)
    heap,      \* evaluator session: every Frame created so far
    last,      \* evaluator session: the outcome of the last evaluate call
    steps      \* evaluator session: number of top-level evaluations so far

vars == <<text, tokens, ptokens, presult, heap, last, steps>>

---------------------------------------------------------------------------
(* Bounds of the model.                                                    *)
MaxText == 4     \* longest source text given to tokenize
MaxToks == 4     \* longest token list given to parse
MaxSteps == 3    \* top-level evaluations in one session

---------------------------------------------------------------------------
(* Trees and values.                                                       *)
Num(n) == [k |-> "num", num |-> n, den |-> 1, fl |-> FALSE]
Sym(s) == [k |-> "sym", sym |-> s]
List(l) == [k |-> "list", list |-> l]
Bool(b) == [k |-> "bool", b |-> b]
Str(s) == [k |-> "str", str |-> s]
Native(n) == [k |-> "native", native |-> n]
Fn(params, body, frame) ==
    [k |-> "fn", parameters |-> params, body |-> body, defining_frame |-> frame]
Pair(a, d) == [k |-> "pair", car |-> a, cdr |-> d]
NoneV == [k |-> "none"]

Pending == [st |-> "pending"]

---------------------------------------------------------------------------
(* Tokenization.                                                           *)

TokInit == [tokens |-> <<>>, current_token |-> "", comment |-> FALSE]

\* the tail shared by the whitespace and parenthesis branches: emit the
\* token in progress, if there is one
TokFlush(s) ==
    IF s.current_token # ""
    THEN [s EXCEPT !.tokens = Append(s.tokens, s.current_token),
                   !.current_token = ""]
    ELSE s

\* one iteration of the loop over the characters of the source
TokStep(s, ch) ==
    IF s.comment
    THEN IF ch = "\n" THEN [s EXCEPT !.comment = FALSE] ELSE s
    ELSE IF ch = ";" THEN [s EXCEPT !.comment = TRUE]
    ELSE IF ch \in {" ", "\n", "\t"} THEN TokFlush(s)
    ELSE IF ch \in {"(", ")"}
         THEN LET f == TokFlush(s) IN [f EXCEPT !.tokens = Append(f.tokens, ch)]
    ELSE [s EXCEPT !.current_token = s.current_token \o ch]

RECURSIVE TokLoop(_, _)
TokLoop(s, source) ==
    IF source = <<>> THEN s
    ELSE TokLoop(TokStep(s, Head(source)), Tail(source))

tokenize(source) == TokFlush(TokLoop(TokInit, source)).tokens

---------------------------------------------------------------------------
(* Parsing.                                                                *)

\* the integer literals among the tokens of the model
IntLiteral ==
    ("0" :> 0) @@ ("1" :> 1) @@ ("2" :> 2) @@ ("3" :> 3) @@ ("5" :> 5)
    @@ ("6" :> 6) @@ ("7" :> 7) @@ ("9" :> 9)

\* scheme_utils.number_or_symbol: an int (or float) if the token reads as
\* one, the token itself otherwise
number_or_symbol(token) ==
    IF token \in DOMAIN IntLiteral THEN Num(IntLiteral[token]) ELSE Sym(token)

POk(tree, rest) == [st |-> "ok", tree |-> tree, rest |-> rest]
PRaise(e, rest) == [st |-> e, tree |-> NoneV, rest |-> rest]

\* a variant of TopLevelCheck that forgets the left-over tokens
TopLevelCheckLax(r) == r

\* the end of parse: tokens left after one expression are an error
TopLevelCheck(r) ==
    IF r.st = "ok" /\ r.rest # <<>>
    THEN PRaise("SchemeSyntaxError", r.rest)
    ELSE r

RECURSIVE parse_main_paren(_), ParseWhile(_, _)
parse_main_paren(toks) ==
    IF toks = <<>> THEN PRaise("SchemeEvaluationError", toks)
    ELSE LET token == Head(toks)
             rest == Tail(toks)
         IN  IF token = "("
             THEN IF rest = <<>> THEN PRaise("SchemeSyntaxError", rest)
                  ELSE ParseWhile(<<>>, rest)
             ELSE IF token = ")" THEN PRaise("SchemeSyntaxError", rest)
             ELSE POk(number_or_symbol(token), rest)

\* the while loop of parse_main_paren; toks is never empty at its test
ParseWhile(current_expr, toks) ==
    IF toks[1] # ")"
    THEN LET r == parse_main_paren(toks)
         IN  IF r.st # "ok" THEN r
             ELSE IF r.rest = <<>> THEN PRaise("SchemeSyntaxError", r.rest)
             ELSE ParseWhile(Append(current_expr, r.tree), r.rest)
    ELSE POk(List(current_expr), Tail(toks))

parse(toks) == TopLevelCheck(parse_main_paren(toks))

---------------------------------------------------------------------------
(* Python arithmetic on the values the built-ins receive.                  *)

PyOk(v) == [st |-> "ok", v |-> v]
PyRaise(e) == [st |-> e, v |-> NoneV]

Abs(n) == IF n < 0 THEN -n ELSE n

RECURSIVE GCD(_, _)
GCD(a, b) == IF b = 0 THEN a ELSE GCD(b, a % b)

\* the number n/d (d # 0) in lowest terms with a positive denominator
Frac(n, d, fl) ==
    LET g == GCD(Abs(n), Abs(d))
        s == IF d < 0 THEN -1 ELSE 1
    IN  [k |-> "num", num |-> (s * n) \div g, den |-> (s * d) \div g, fl |-> fl]

\* bool is a subclass of int: True and False count as 1 and 0
NumLike(v) == v.k \in {"num", "bool"}
AsNum(v) == IF v.k = "bool" THEN Num(IF v.b THEN 1 ELSE 0) ELSE v

RECURSIVE Repeat(_, _)
Repeat(s, n) == IF n <= 0 THEN "" ELSE s \o Repeat(s, n - 1)

PyAdd(a, b) ==
    IF NumLike(a) /\ NumLike(b)
    THEN LET x == AsNum(a)
             y == AsNum(b)
         IN  PyOk(Frac(x.num * y.den + y.num * x.den, x.den * y.den, x.fl \/ y.fl))
    ELSE PyRaise("TypeError")

PySub(a, b) ==
    IF NumLike(a) /\ NumLike(b)
    THEN LET x == AsNum(a)
             y == AsNum(b)
         IN  PyOk(Frac(x.num * y.den - y.num * x.den, x.den * y.den, x.fl \/ y.fl))
    ELSE PyRaise("TypeError")

PyNeg(a) ==
    IF NumLike(a)
    THEN LET x == AsNum(a) IN PyOk(Frac(-x.num, x.den, x.fl))
    ELSE PyRaise("TypeError")

\* a * b: numbers multiply, a str times an int repeats the str
PyMul(a, b) ==
    IF NumLike(a) /\ NumLike(b)
    THEN LET x == AsNum(a)
             y == AsNum(b)
         IN  PyOk(Frac(x.num * y.num, x.den * y.den, x.fl \/ y.fl))
    ELSE IF a.k = "str" /\ NumLike(b) /\ ~AsNum(b).fl
         THEN PyOk(Str(Repeat(a.str, AsNum(b).num)))
    ELSE IF b.k = "str" /\ NumLike(a) /\ ~AsNum(a).fl
         THEN PyOk(Str(Repeat(b.str, AsNum(a).num)))
    ELSE PyRaise("TypeError")

\* a / b: true division, always a float
PyDiv(a, b) ==
    IF NumLike(a) /\ NumLike(b)
    THEN LET x == AsNum(a)
             y == AsNum(b)
         IN  IF y.num = 0 THEN PyRaise("ZeroDivisionError")
             ELSE PyOk(Frac(x.num * y.den, x.den * y.num, TRUE))
    ELSE PyRaise("TypeError")

\* a < b on numbers; the order Python gives two str values is not modelled
PyLess(a, b) ==
    CASE NumLike(a) /\ NumLike(b) ->
            PyOk(Bool(AsNum(a).num * AsNum(b).den < AsNum(b).num * AsNum(a).den))
      [] ~(NumLike(a) /\ NumLike(b)) /\ ~(a.k = "str" /\ b.k = "str") ->
            PyRaise("TypeError")

\* a == b; Pair and Function objects compare by identity, which the model
\* of values does not carry: comparing two of them is not modelled
PyEq(a, b) ==
    CASE NumLike(a) /\ NumLike(b) -> AsNum(a).num = AsNum(b).num /\ AsNum(a).den = AsNum(b).den
      [] a.k \notin {"pair", "fn"} /\ ~(NumLike(a) /\ NumLike(b)) -> a = b
      [] a.k \in {"pair", "fn"} /\ b.k \notin {"pair", "fn"} -> FALSE

\* sum(args), starting from the int 0
RECURSIVE PySumFrom(_, _)
PySumFrom(acc, args) ==
    IF args = <<>> THEN PyOk(acc)
    ELSE LET r == PyAdd(acc, Head(args))
         IN  IF r.st # "ok" THEN r ELSE PySumFrom(r.v, Tail(args))

PySum(args) == PySumFrom(Num(0), args)

---------------------------------------------------------------------------
(* Built-ins.                                                              *)

RECURSIVE builtin_mul(_)
builtin_mul(args) ==
    IF Len(args) = 1 THEN PyOk(args[1])
    ELSE IF Len(args) = 2 THEN PyMul(args[1], args[2])
    ELSE IF Len(args) = 0 THEN PyRaise("ValueError")   \* first_num, *rest_nums = ()
    ELSE LET r == builtin_mul(Tail(args))
         IN  IF r.st # "ok" THEN r ELSE PyMul(args[1], r.v)

\* relation(a, b) for the four orderings, through PyLess
Relation(op, a, b) ==
    CASE op = "<" -> PyLess(a, b)
      [] op = ">" -> PyLess(b, a)
      [] op = "<=" -> LET r == PyLess(b, a)
                      IN  IF r.st # "ok" THEN r ELSE PyOk(Bool(~r.v.b))
      [] op = ">=" -> LET r == PyLess(a, b)
                      IN  IF r.st # "ok" THEN r ELSE PyOk(Bool(~r.v.b))

RECURSIVE compare_helper(_, _)
compare_helper(args, op) ==
    IF Len(args) < 2 THEN PyOk(Bool(TRUE))
    ELSE LET r == Relation(op, args[1], args[2])
         IN  IF r.st # "ok" THEN r
             ELSE IF ~r.v.b THEN PyOk(Bool(FALSE))
             ELSE compare_helper(Tail(args), op)

builtin_compare(op, args) ==
    IF Len(args) < 2 THEN PyRaise("SchemeEvaluationError")   \* check_arg_length
    ELSE compare_helper(args, op)

builtin_equal(args) ==
    IF Len(args) < 2 THEN PyRaise("SchemeEvaluationError")
    ELSE PyOk(Bool(\A i \in 2..Len(args) : PyEq(args[i], args[1])))

builtin_not(args) ==
    IF Len(args) # 1 THEN PyRaise("SchemeEvaluationError")
    ELSE PyOk(Bool(args[1] = Bool(FALSE)))

builtin_cons(args) ==
    IF Len(args) # 2 THEN PyRaise("SchemeEvaluationError")
    ELSE PyOk(Pair(args[1], args[2]))

builtin_car(args) ==
    IF Len(args) # 1 THEN PyRaise("SchemeEvaluationError")
    ELSE IF args[1].k # "pair" THEN PyRaise("SchemeEvaluationError")
    ELSE PyOk(args[1].car)

builtin_cdr(args) ==
    IF Len(args) # 1 THEN PyRaise("SchemeEvaluationError")
    ELSE IF args[1].k # "pair" THEN PyRaise("SchemeEvaluationError")
    ELSE PyOk(args[1].cdr)

\* lambda x, *y: x - sum(y) if y else -x
builtin_sub(args) ==
    IF args = <<>> THEN PyRaise("TypeError")
    ELSE IF Len(args) = 1 THEN PyNeg(args[1])
    ELSE LET s == PySum(Tail(args))
         IN  IF s.st # "ok" THEN s ELSE PySub(args[1], s.v)

\* lambda x, *y: x / builtin_mul(*y) if y else 1 / x
builtin_div(args) ==
    IF args = <<>> THEN PyRaise("TypeError")
    ELSE IF Len(args) = 1 THEN PyDiv(Num(1), args[1])
    ELSE LET m == builtin_mul(Tail(args))
         IN  IF m.st # "ok" THEN m ELSE PyDiv(args[1], m.v)

\* calling the Python object a native name of SCHEME_BUILTINS stands for
NativeCall(name, args) ==
    CASE name = "+" -> PySum(args)
      [] name = "*" -> builtin_mul(args)
      [] name = "-" -> builtin_sub(args)
      [] name = "/" -> builtin_div(args)
      [] name = "not" -> builtin_not(args)
      [] name = "equal?" -> builtin_equal(args)
      [] name \in {">", ">=", "<", "<="} -> builtin_compare(name, args)
      [] name = "cons" -> builtin_cons(args)
      [] name = "car" -> builtin_car(args)
      [] name = "cdr" -> builtin_cdr(args)

NativeNames ==
    {"+", "*", "-", "/", "not", "equal?", ">", ">=", "<", "<=", "cons", "car", "cdr"}
FormNames == {"define", "lambda", "if", "and", "or"}

SCHEME_BUILTINS ==
    [s \in {Sym(n) : n \in NativeNames \cup FormNames \cup {"#t", "#f"}} |->
        IF s.sym \in NativeNames THEN Native(s.sym)
        ELSE IF s.sym \in FormNames THEN Str(s.sym)
        ELSE Bool(s.sym = "#t")]

---------------------------------------------------------------------------
(* Frames.                                                                 *)

EmptyMapping == [x \in {} |-> NoneV]

\* Frame.__init__
Frame(parent_frame) == [parent_frame |-> parent_frame, mapping |-> EmptyMapping]

\* a variant of FrameDefine that writes the root of the chain instead
RECURSIVE RootOf(_, _)
RootOf(h, f) == IF h[f].parent_frame = 0 THEN f ELSE RootOf(h, h[f].parent_frame)
FrameDefineInRoot(h, f, symbol, value) ==
    [h EXCEPT ![RootOf(h, f)].mapping = (symbol :> value) @@ @]

\* Frame.define: the heap after self.mapping[symbol] = value, self being f
FrameDefine(h, f, symbol, value) ==
    [h EXCEPT ![f].mapping = (symbol :> value) @@ @]

\* a dict key must be hashable: a Python list is not
Hashable(key) == key.k # "list"

\* Frame.lookup
RECURSIVE lookup(_, _, _)
lookup(h, f, symbol) ==
    IF symbol \in DOMAIN h[f].mapping THEN PyOk(h[f].mapping[symbol])
    ELSE IF h[f].parent_frame # 0 THEN lookup(h, h[f].parent_frame, symbol)
    ELSE PyRaise("SchemeNameError")

\* Frame.is_defined
is_defined(h, f, symbol) == lookup(h, f, symbol).st = "ok"

\* make_initial_frame: the heap with the two new frames; the frame it
\* returns is created first and is Len(h) + 1, its parent holds the built-ins
make_initial_frame(h) ==
    h \o << [parent_frame |-> Len(h) + 2, mapping |-> EmptyMapping],
            [parent_frame |-> 0, mapping |-> SCHEME_BUILTINS] >>

---------------------------------------------------------------------------
(* Evaluation.  An outcome is [st, v, h, trace]: the status, the value,    *)
(* the heap the call leaves and the trace of the calls of evaluate that    *)
(* have returned or raised so far, each with its tree, frame, nesting      *)
(* depth and outcome (a probe: the code keeps no such record).             *)

Ok(v, h, tr) == [st |-> "ok", v |-> v, h |-> h, trace |-> tr]
Raise(e, h, tr) == [st |-> e, v |-> NoneV, h |-> h, trace |-> tr]

\* a variant of HeadCheck that lets a literal head through to the call
HeadCheckNoLiteral(tree, frame, h) ==
    LET head == tree.list[1]
    IN  IF head.k = "sym" /\ head \notin DOMAIN SCHEME_BUILTINS
                          /\ ~is_defined(h, frame, head)
        THEN "SchemeNameError"
        ELSE "ok"

\* the two guards on tree[0] before it is evaluated
HeadCheck(tree, frame, h) ==
    LET head == tree.list[1]
    IN  IF head.k # "sym"
        THEN IF head.k # "list" THEN "SchemeEvaluationError" ELSE "ok"
        ELSE IF head \notin DOMAIN SCHEME_BUILTINS /\ ~is_defined(h, frame, head)
             THEN "SchemeNameError"
             ELSE "ok"

\* a variant of AndStops that also stops on the number 0
AndStopsOnZero(val) == val = Bool(FALSE) \/ val = Num(0)

\* `val is False` in the loop of `and`
AndStops(val) == val = Bool(FALSE)

\* `val is True` in the loop of `or`
OrStops(val) == val = Bool(TRUE)

\* `pred_val is False` in `if`
IfTakesElse(pred_val) == pred_val = Bool(FALSE)

\* a variant of NewFrameParent: the frame of the caller (dynamic scoping)
NewFrameParentOfCaller(function, caller) == caller

\* the parent Function.__call__ gives the frame of a call
NewFrameParent(function, caller) == function.defining_frame

\* a variant of DefineLiteral that binds the literal but returns nothing
DefineLiteralNoValue(var, val, frame, h, tr) ==
    Ok(NoneV, FrameDefine(h, frame, var, val), tr)

\* define with a number literal as value: bound as it is, not evaluated
DefineLiteral(var, val, frame, h, tr) ==
    Ok(val, FrameDefine(h, frame, var, val), tr)

\* except TypeError: raise SchemeEvaluationError
CatchTypeError(r) ==
    IF r.st = "TypeError" THEN [r EXCEPT !.st = "SchemeEvaluationError"] ELSE r

\* the names zip(self.parameters, args) yields, self.parameters being a
\* list or a one-character str (a longer str gives its characters, which
\* the model does not take apart)
ParamNames(ps) ==
    CASE ps.k = "list" -> ps.list
      [] ps.k = "sym" /\ Len(ps.sym) = 1 -> <<ps>>

\* len(self.parameters) of a list or a str
ParamCount(ps) == IF ps.k = "list" THEN Len(ps.list) ELSE Len(ps.sym)

RECURSIVE evaluate(_, _, _, _, _), EvalTree(_, _, _, _, _),
          EvalAnd(_, _, _, _, _), EvalOr(_, _, _, _, _),
          EvalArgs(_, _, _, _, _, _), BindParams(_, _, _, _),
          FunctionCall(_, _, _, _, _, _), CallValue(_, _, _, _, _, _),
          EvalIf(_, _, _, _, _), EvalDefine(_, _, _, _, _)

\* evaluate(tree, frame), at nesting depth d
evaluate(tree, frame, h, tr, d) ==
    LET r == EvalTree(tree, frame, h, tr, d)
    IN  [r EXCEPT !.trace = Append(r.trace,
            [tree |-> tree, frame |-> frame, depth |-> d, st |-> r.st, v |-> r.v])]

\* if: exactly one branch is evaluated
EvalIf(tree, frame, h, tr, d) ==
    IF Len(tree.list) # 4 THEN Raise("SchemeEvaluationError", h, tr)
    ELSE LET p == evaluate(tree.list[2], frame, h, tr, d + 1)
         IN  IF p.st # "ok" THEN p
             ELSE IF IfTakesElse(p.v)
                  THEN evaluate(tree.list[4], frame, p.h, p.trace, d + 1)
                  ELSE evaluate(tree.list[3], frame, p.h, p.trace, d + 1)

\* and: the loop over tree[1:]
EvalAnd(exprs, frame, h, tr, d) ==
    IF exprs = <<>> THEN Ok(Bool(TRUE), h, tr)
    ELSE LET r == evaluate(Head(exprs), frame, h, tr, d + 1)
         IN  IF r.st # "ok" THEN r
             ELSE IF AndStops(r.v) THEN Ok(Bool(FALSE), r.h, r.trace)
             ELSE EvalAnd(Tail(exprs), frame, r.h, r.trace, d)

\* or: the loop over tree[1:]
EvalOr(exprs, frame, h, tr, d) ==
    IF exprs = <<>> THEN Ok(Bool(FALSE), h, tr)
    ELSE LET r == evaluate(Head(exprs), frame, h, tr, d + 1)
         IN  IF r.st # "ok" THEN r
             ELSE IF OrStops(r.v) THEN Ok(Bool(TRUE), r.h, r.trace)
             ELSE EvalOr(Tail(exprs), frame, r.h, r.trace, d)

\* define
EvalDefine(tree, frame, h, tr, d) ==
    LET args == Tail(tree.list)
    IN  IF Len(args) < 2 THEN Raise("SchemeEvaluationError", h, tr)
        ELSE LET var == args[1]
                 val == args[2]
             IN  IF var.k = "list"
                 THEN IF var.list = <<>> THEN Raise("IndexError", h, tr)   \* var[0]
                      ELSE LET func_name == var.list[1]
                               function == Fn(List(Tail(var.list)), val, frame)
                           IN  IF ~Hashable(func_name) THEN Raise("TypeError", h, tr)
                               ELSE Ok(function,
                                       FrameDefine(h, frame, func_name, function), tr)
                 ELSE IF val.k = "num" THEN DefineLiteral(var, val, frame, h, tr)
                 ELSE LET r == evaluate(val, frame, h, tr, d + 1)
                      IN  IF r.st # "ok" THEN r
                          ELSE Ok(r.v, FrameDefine(r.h, frame, var, r.v), r.trace)

\* lambda
EvalLambda(tree, frame, h, tr) ==
    IF Len(tree.list) < 2 THEN Raise("SchemeEvaluationError", h, tr)
    ELSE IF Len(tree.list) < 3 THEN Raise("IndexError", h, tr)   \* tree[2]
    ELSE Ok(Fn(tree.list[2], tree.list[3], frame), h, tr)

\* [evaluate(arg, frame) for arg in tree[1:]]; the outcome's v is the list
EvalArgs(exprs, vals, frame, h, tr, d) ==
    IF exprs = <<>> THEN Ok(vals, h, tr)
    ELSE LET r == evaluate(Head(exprs), frame, h, tr, d + 1)
         IN  IF r.st # "ok" THEN r
             ELSE EvalArgs(Tail(exprs), Append(vals, r.v), frame, r.h, r.trace, d)

\* the loop of Function.__call__ that binds each parameter in new_frame
BindParams(names, args, new_frame, h) ==
    IF names = <<>> THEN PyOk(h)
    ELSE IF ~Hashable(Head(names)) THEN [st |-> "TypeError", v |-> h]
    ELSE BindParams(Tail(names), Tail(args), new_frame,
                    FrameDefine(h, new_frame, Head(names), Head(args)))

\* Function.__call__, called from an evaluate running in frame caller
FunctionCall(function, args, caller, h, tr, d) ==
    IF function.parameters.k = "num" THEN Raise("TypeError", h, tr)   \* len(5)
    ELSE IF Len(args) # ParamCount(function.parameters)
         THEN Raise("SchemeEvaluationError", h, tr)
    ELSE LET new_frame == Len(h) + 1
             h1 == Append(h, Frame(NewFrameParent(function, caller)))
             b == BindParams(ParamNames(function.parameters), args, new_frame, h1)
         IN  IF b.st # "ok" THEN Raise(b.st, b.v, tr)
             ELSE evaluate(function.body, new_frame, b.v, tr, d + 1)

\* oper(*args)
CallValue(oper, args, caller, h, tr, d) ==
    IF oper.k = "native"
    THEN LET n == NativeCall(oper.native, args)
         IN  [st |-> n.st, v |-> n.v, h |-> h, trace |-> tr]
    ELSE IF oper.k = "fn" THEN FunctionCall(oper, args, caller, h, tr, d)
    ELSE Raise("TypeError", h, tr)   \* not callable

\* the body of evaluate
EvalTree(tree, frame, h, tr, d) ==
    IF tree.k # "list"
    THEN IF tree.k = "num" THEN Ok(tree, h, tr)
         ELSE IF is_defined(h, frame, tree)
              THEN Ok(lookup(h, frame, tree).v, h, tr)
              ELSE Raise("SchemeNameError", h, tr)
    ELSE IF tree.list = <<>> THEN Raise("IndexError", h, tr)   \* tree[0]
    ELSE IF HeadCheck(tree, frame, h) # "ok"
         THEN Raise(HeadCheck(tree, frame, h), h, tr)
    ELSE LET o == evaluate(tree.list[1], frame, h, tr, d + 1)
             oper == o.v
         IN  IF o.st # "ok" THEN o
             ELSE IF oper = Str("if") THEN EvalIf(tree, frame, o.h, o.trace, d)
             ELSE IF oper = Str("and")
                  THEN EvalAnd(Tail(tree.list), frame, o.h, o.trace, d)
             ELSE IF oper = Str("or")
                  THEN EvalOr(Tail(tree.list), frame, o.h, o.trace, d)
             ELSE IF oper = Str("define") THEN EvalDefine(tree, frame, o.h, o.trace, d)
             ELSE IF oper = Str("lambda") THEN EvalLambda(tree, frame, o.h, o.trace)
             ELSE LET a == EvalArgs(Tail(tree.list), <<>>, frame, o.h, o.trace, d)
                  IN  IF a.st # "ok" THEN a
                      ELSE CatchTypeError(
                               CallValue(oper, a.v, frame, a.h, a.trace, d))

---------------------------------------------------------------------------
(* The three sessions.  Each specification runs one of them and leaves    *)
(* the variables of the other two at their initial values.                 *)

NoCall == [tree |-> NoneV, frame |-> 0, st |-> "none", v |-> NoneV, trace |-> <<>>]

TokIdle == text = <<>> /\ tokens = Pending
ParseIdle == ptokens = <<>> /\ presult = Pending
EvalIdle == heap = make_initial_frame(<<>>) /\ last = NoCall /\ steps = 0

\* the frame make_initial_frame returned to the session, and its parent
SessionFrame == 1
BuiltinsFrame == 2

(* Tokenizer session: tokenize is applied to a text. *)
Chars == {"a", ";", "\n", " ", "("}
Texts == UNION {[1..n -> Chars] : n \in 0..MaxText}

InitTok == text \in Texts /\ tokens = Pending /\ ParseIdle /\ EvalIdle

Tokenize ==
    /\ tokens = Pending
    /\ tokens' = [st |-> "ok", tokens |-> tokenize(text)]
    /\ UNCHANGED <<text, ptokens, presult, heap, last, steps>>

SpecTok == InitTok /\ [][Tokenize]_vars

(* Parser session: parse is applied to a token list. *)
TokenAlphabet == {"(", ")", "a", "1"}
TokenLists == UNION {[1..n -> TokenAlphabet] : n \in 0..MaxToks}

InitParse == ptokens \in TokenLists /\ presult = Pending /\ TokIdle /\ EvalIdle

Parse ==
    /\ presult = Pending
    /\ presult' = parse(ptokens)
    /\ UNCHANGED <<text, tokens, ptokens, heap, last, steps>>

SpecParse == InitParse /\ [][Parse]_vars

(* Evaluator session: trees are evaluated one after the other, either in  *)
(* the frame of the session, as the REPL does, or with no frame given.     *)

\* the tree the parser returns for a token list
Read(toks) == parse(toks).tree

\* evaluate(tree, repl_frame)
Evaluate(tree) ==
    /\ steps < MaxSteps
    /\ LET r == evaluate(tree, SessionFrame, heap, <<>>, 0)
       IN  /\ heap' = r.h
           /\ last' = [tree |-> tree, frame |-> SessionFrame, st |-> r.st,
                       v |-> r.v, trace |-> r.trace]
    /\ steps' = steps + 1
    /\ UNCHANGED <<text, tokens, ptokens, presult>>

\* evaluate(tree): frame is None, so a new initial frame is made for the call
EvaluateDefault(tree) ==
    /\ steps < MaxSteps
    /\ LET frame == Len(heap) + 1
           r == evaluate(tree, frame, make_initial_frame(heap), <<>>, 0)
       IN  /\ heap' = r.h
           /\ last' = [tree |-> tree, frame |-> frame, st |-> r.st,
                       v |-> r.v, trace |-> r.trace]
    /\ steps' = steps + 1
    /\ UNCHANGED <<text, tokens, ptokens, presult>>

InitEval == TokIdle /\ ParseIdle /\ EvalIdle

\* the heap the call that made the step started from
StartHeap == IF last'.frame = SessionFrame THEN heap ELSE make_initial_frame(heap)

\* the calls of evaluate made directly by the top-level call: its head, then
\* its operands
RECURSIVE AtDepth(_, _)
AtDepth(tr, d) ==
    IF tr = <<>> THEN <<>>
    ELSE IF Head(tr).depth = d THEN <<Head(tr)>> \o AtDepth(Tail(tr), d)
    ELSE AtDepth(Tail(tr), d)
Direct(tr) == AtDepth(tr, 1)

---------------------------------------------------------------------------
(* C7: tokenizing a text gives the tokens of the text with its comments    *)
(* deleted, a comment being the characters from a ";" up to but excluding  *)
(* the next newline (or the end of the text).                              *)

RECURSIVE StripComments(_, _)
StripComments(source, in_comment) ==
    IF source = <<>> THEN <<>>
    ELSE LET ch == Head(source)
         IN  IF in_comment
             THEN IF ch = "\n" THEN <<ch>> \o StripComments(Tail(source), FALSE)
                  ELSE StripComments(Tail(source), TRUE)
             ELSE IF ch = ";" THEN StripComments(Tail(source), TRUE)
             ELSE <<ch>> \o StripComments(Tail(source), FALSE)

\* C7: tokenize(text) = tokenize(text without its comments)
C7_CommentInsensitive ==
    tokens # Pending => tokens.tokens = tokenize(StripComments(text, FALSE))

---------------------------------------------------------------------------
(* C6: parse returns a tree exactly for the token lists that are one       *)
(* complete expression, and fails with SchemeSyntaxError for all others.   *)

Depth(toks, i) ==
    Cardinality({j \in 1..i : toks[j] = "("}) - Cardinality({j \in 1..i : toks[j] = ")"})

\* one atom, or one parenthesized form whose first "(" is closed by the last token
OneExpression(toks) ==
    \/ Len(toks) = 1 /\ toks[1] \notin {"(", ")"}
    \/ /\ Len(toks) >= 2
       /\ toks[1] = "("
       /\ \A i \in 1..(Len(toks) - 1) : Depth(toks, i) > 0
       /\ Depth(toks, Len(toks)) = 0

\* C6: for a non-empty token list, parse returns a tree iff the list is one
\* complete expression, then with an empty cursor; otherwise it fails with
\* SchemeSyntaxError and returns no tree
C6_ParseAcceptsOneExpression ==
    (presult # Pending /\ ptokens # <<>>) =>
        /\ (presult.st = "ok") <=> OneExpression(ptokens)
        /\ presult.st = "ok" =>
              presult.rest = <<>> /\ presult.tree.k \in {"num", "sym", "list"}
        /\ presult.st # "ok" =>
              presult.st = "SchemeSyntaxError" /\ presult.tree = NoneV

\* a complete form followed by one more token has been rejected
C6_Witness ==
    /\ presult # Pending
    /\ ptokens = <<"(", "a", ")", ")">>
    /\ presult.st = "SchemeSyntaxError"

---------------------------------------------------------------------------
(* C1: lexical scoping.                                                    *)

DefF == Read(<<"(", "define", "(", "f", "x", ")", "(", "lambda", "(", ")", "x", ")", ")">>)
DefG == Read(<<"(", "define", "(", "g", "x", ")", "(", "(", "f", "1", ")", ")", ")">>)
DefX2 == Read(<<"(", "define", "x", "2", ")">>)
RedefF == Read(<<"(", "define", "(", "f", "y", ")", "x", ")">>)
CallF1 == Read(<<"(", "(", "f", "1", ")", ")">>)
CallG7 == Read(<<"(", "g", "7", ")">>)

ProgsLex == {DefF, DefG, DefX2, RedefF, CallF1, CallG7}

NextLex == \E p \in ProgsLex : Evaluate(p) \/ EvaluateDefault(p)
SpecLex == InitEval /\ [][NextLex]_vars

\* frame fr holds f as (define (f x) (lambda () x)) left it there
HoldsF(fr) ==
    /\ Sym("f") \in DOMAIN heap[fr].mapping
    /\ heap[fr].mapping[Sym("f")] = Fn(List(<<Sym("x")>>), DefF.list[3], fr)
HoldsG(fr) ==
    /\ Sym("g") \in DOMAIN heap[fr].mapping
    /\ heap[fr].mapping[Sym("g")] = Fn(List(<<Sym("x")>>), DefG.list[3], fr)

\* C1: in every state and every frame that holds f as defined by
\* (define (f x) (lambda () x)), ((f 1)) returns 1 whatever x is bound to in
\* that frame, each of the two calls getting one new frame whose parent is
\* the frame its closure captured; and so does ((f 1)) when called from the
\* body of g, in a frame where x is 7
C1_LexicalScoping ==
    \A fr \in 1..Len(heap) :
        HoldsF(fr) =>
            /\ LET r == evaluate(CallF1, fr, heap, <<>>, 0)
                   n == Len(heap)
               IN  /\ r.st = "ok" /\ r.v = Num(1)
                   /\ Len(r.h) = n + 2
                   /\ SubSeq(r.h, 1, n) = heap
                   /\ r.h[n + 1] = [parent_frame |-> fr, mapping |-> (Sym("x") :> Num(1))]
                   /\ r.h[n + 2] = [parent_frame |-> n + 1, mapping |-> EmptyMapping]
            /\ HoldsG(fr) =>
                  LET r == evaluate(CallG7, fr, heap, <<>>, 0)
                  IN  r.st = "ok" /\ r.v = Num(1)

\* (g 7) has returned 1: the closure f made was called from the body of g,
\* in a frame where x is 7
C1_Witness ==
    /\ HoldsF(SessionFrame) /\ HoldsG(SessionFrame)
    /\ last.tree = CallG7 /\ last.frame = SessionFrame
    /\ last.st = "ok" /\ last.v = Num(1)
    /\ \E f \in 3..Len(heap) :
          /\ heap[f].parent_frame = SessionFrame
          /\ heap[f].mapping = (Sym("x") :> Num(7))

---------------------------------------------------------------------------
(* C2 and C8: define.                                                      *)

DefX5 == Read(<<"(", "define", "x", "5", ")">>)
IncX == Read(<<"(", "define", "x", "(", "+", "x", "1", ")", ")">>)
PlusX1 == Read(<<"(", "+", "x", "1", ")">>)
DefPlus == Read(<<"(", "define", "+", "-", ")">>)
DefH == Read(<<"(", "define", "(", "h", ")", "(", "define", "car", "7", ")", ")">>)
CallH == Read(<<"(", "h", ")">>)
DefYX == Read(<<"(", "define", "y", "(", "define", "x", "2", ")", ")">>)

ProgsDef == {DefX5, IncX, PlusX1, DefPlus, DefH, CallH, DefYX}

NextDef == \E p \in ProgsDef : Evaluate(p) \/ EvaluateDefault(p)
SpecDef == InitEval /\ [][NextDef]_vars

\* tree t is (define x e) with a Symbol x
IsSymbolDefine(t) ==
    /\ t.k = "list"
    /\ Len(t.list) = 3
    /\ t.list[1] = Sym("define")
    /\ t.list[2].k = "sym"

\* trace entry e is a define of name x (either form) evaluated in frame f
DefinesIn(e, f, x) ==
    /\ e.frame = f
    /\ e.tree.k = "list"
    /\ Len(e.tree.list) >= 3
    /\ e.tree.list[1] = Sym("define")
    /\ \/ e.tree.list[2] = x
       \/ /\ e.tree.list[2].k = "list"
          /\ e.tree.list[2].list # <<>>
          /\ e.tree.list[2].list[1] = x

\* a step that evaluates (define x e) has the outcome of e; when e has a
\* value, that value is returned and is what x is bound to in the frame of
\* the call, nothing else differs from what evaluating e alone leaves, and
\* evaluating x in that frame gives the value
C2_DefineStep ==
    LET t == last'.tree
        fr == last'.frame
        h0 == StartHeap
    IN  (IsSymbolDefine(t) /\ lookup(h0, fr, Sym("define")) = PyOk(Str("define"))) =>
            LET x == t.list[2]
                e == evaluate(t.list[3], fr, h0, <<>>, 0)
            IN  /\ last'.st = e.st
                /\ e.st = "ok" =>
                      /\ last'.v = e.v
                      /\ x \in DOMAIN heap'[fr].mapping
                      /\ heap'[fr].mapping[x] = e.v
                      /\ [heap' EXCEPT ![fr].mapping = e.h[fr].mapping] = e.h
                      /\ evaluate(x, fr, heap', <<>>, 0).st = "ok"
                      /\ evaluate(x, fr, heap', <<>>, 0).v = e.v

\* a name bound in a frame keeps its value, and evaluates to it from that
\* frame, through every step that evaluates no define of the name there
C2_KeepsValue ==
    \A f \in 1..Len(heap) : \A x \in DOMAIN heap[f].mapping :
        (x.k = "sym" /\ \A i \in 1..Len(last'.trace) : ~DefinesIn(last'.trace[i], f, x)) =>
            /\ x \in DOMAIN heap'[f].mapping
            /\ heap'[f].mapping[x] = heap[f].mapping[x]
            /\ evaluate(x, f, heap', <<>>, 0).v = heap[f].mapping[x]

\* (define x 5) returns 5 and (+ x 1) is then 6, + being the built-in
C2_Example ==
    (last'.tree = DefX5 /\ lookup(heap', last'.frame, Sym("+")) = PyOk(Native("+"))) =>
        /\ last'.st = "ok" /\ last'.v = Num(5)
        /\ evaluate(PlusX1, last'.frame, heap', <<>>, 0).v = Num(6)

\* C2: (define x e) evaluates e in the active frame, binds the result to x
\* there and returns it; later evaluations of x from that frame give that
\* value until x is defined again there
C2_DefineIsExpression ==
    [][C2_DefineStep /\ C2_KeepsValue /\ C2_Example]_vars

\* (define x (+ x 1)) has returned 6 after (define x 5)
C2_Witness ==
    /\ last.tree = IncX /\ last.frame = SessionFrame
    /\ last.st = "ok" /\ last.v = Num(6)
    /\ heap[SessionFrame].mapping[Sym("x")] = Num(6)

\* every frame without a parent is a built-ins frame and holds the table
C8_BuiltinsIntact ==
    \A f \in 1..Len(heap) :
        heap[f].parent_frame = 0 => heap[f].mapping = SCHEME_BUILTINS

\* a step changes a frame that existed when its call started only by adding
\* or overwriting the names whose define was evaluated in that very frame
C8_OnlyActiveFrame ==
    LET h0 == StartHeap
    IN  \A f \in 1..Len(h0) :
            /\ heap'[f].parent_frame = h0[f].parent_frame
            /\ DOMAIN h0[f].mapping \subseteq DOMAIN heap'[f].mapping
            /\ \A x \in DOMAIN heap'[f].mapping :
                  (x \notin DOMAIN h0[f].mapping \/ heap'[f].mapping[x] # h0[f].mapping[x])
                  => \E i \in 1..Len(last'.trace) :
                        DefinesIn(last'.trace[i], f, x) /\ last'.trace[i].st = "ok"

\* redefining + is seen from the frame that did it, not from its parent
C8_Visible ==
    (last'.tree = DefPlus /\ last'.st = "ok") =>
        /\ lookup(heap', last'.frame, Sym("+")) = PyOk(Native("-"))
        /\ lookup(heap', heap'[last'.frame].parent_frame, Sym("+")) = PyOk(Native("+"))

\* C8: define writes only the frame it is evaluated in; the built-ins frame
\* keeps the bindings of SCHEME_BUILTINS whatever is redefined
C8_DefineWritesActiveFrame ==
    []C8_BuiltinsIntact /\ [][C8_OnlyActiveFrame /\ C8_Visible]_vars

\* + is redefined in the session frame and car in the frame of a call of h,
\* and the built-ins frame still has both
C8_Witness ==
    /\ last.tree = CallH /\ last.st = "ok" /\ last.frame = SessionFrame
    /\ Sym("+") \in DOMAIN heap[SessionFrame].mapping
    /\ heap[SessionFrame].mapping[Sym("+")] = Native("-")
    /\ \E f \in 3..Len(heap) :
          /\ Sym("car") \in DOMAIN heap[f].mapping
          /\ heap[f].mapping[Sym("car")] = Num(7)
    /\ heap[BuiltinsFrame].mapping[Sym("car")] = Native("car")
    /\ heap[BuiltinsFrame].mapping[Sym("+")] = Native("+")

---------------------------------------------------------------------------
(* C3 and C4: and, or.                                                     *)

AndFalseUnbound == Read(<<"(", "and", "#f", "(", "zz", ")", ")">>)
AndDefines ==
    Read(<<"(", "and", "#t", "(", "define", "y", "1", ")", "#f",
           "(", "define", "z", "1", ")", ")">>)
AndZeroTwo == Read(<<"(", "and", "0", "2", ")">>)
AndUnboundFirst == Read(<<"(", "and", "(", "zz", ")", "#f", ")">>)
OrNumberDefines == Read(<<"(", "or", "#f", "1", "(", "define", "w", "3", ")", ")">>)
OrTrueUnbound == Read(<<"(", "or", "#t", "(", "zz", ")", ")">>)
OrPair == Read(<<"(", "or", "(", "cons", "1", "2", ")", ")">>)
OrAllFalse == Read(<<"(", "or", "#f", "(", "not", "y", ")", ")">>)

ProgsBool ==
    {AndFalseUnbound, AndDefines, AndZeroTwo, AndUnboundFirst,
     OrNumberDefines, OrTrueUnbound, OrPair, OrAllFalse}

NextBool == \E p \in ProgsBool : Evaluate(p) \/ EvaluateDefault(p)
SpecBool == InitEval /\ [][NextBool]_vars

\* the last call evaluated a combination whose head evaluated to value
LastHeadIs(value) ==
    /\ last.tree.k = "list"
    /\ last.tree.list # <<>>
    /\ Direct(last.trace) # <<>>
    /\ Direct(last.trace)[1].tree = last.tree.list[1]
    /\ Direct(last.trace)[1].st = "ok"
    /\ Direct(last.trace)[1].v = value

\* the operands of the last call, and the calls of evaluate made on them
LastOperands == Tail(last.tree.list)
LastEvaluated == Tail(Direct(last.trace))

\* the operands were taken strictly from the left: the calls of evaluate on
\* them are a prefix of the operand list, in the frame of the call, and only
\* the last of them can have failed
LeftToRight ==
    /\ Len(LastEvaluated) <= Len(LastOperands)
    /\ \A i \in 1..Len(LastEvaluated) :
          /\ LastEvaluated[i].tree = LastOperands[i]
          /\ LastEvaluated[i].frame = last.frame
          /\ i < Len(LastEvaluated) => LastEvaluated[i].st = "ok"

\* C3: and evaluates its operands from the left and stops at the first that
\* is false, returning false with no later operand evaluated; it returns
\* true when every operand was evaluated and none is false; an operand that
\* fails makes the form fail
C3_AndShortCircuits ==
    /\ LastHeadIs(Str("and")) =>
          LET ev == LastEvaluated
              n == Len(ev)
          IN  /\ LeftToRight
              /\ \A i \in 1..n :
                    (ev[i].st = "ok" /\ ev[i].v = Bool(FALSE)) =>
                        i = n /\ last.st = "ok" /\ last.v = Bool(FALSE)
              /\ (last.st = "ok" /\ last.v = Bool(FALSE)) =>
                    n >= 1 /\ ev[n].v = Bool(FALSE)
              /\ (n = Len(LastOperands) /\ \A i \in 1..n :
                        ev[i].st = "ok" /\ ev[i].v # Bool(FALSE)) =>
                    last.st = "ok" /\ last.v = Bool(TRUE)
              /\ (n >= 1 /\ ev[n].st # "ok") => last.st = ev[n].st
              /\ last.st = "ok" => last.v \in {Bool(TRUE), Bool(FALSE)}
    /\ last.tree = AndFalseUnbound => last.st = "ok" /\ last.v = Bool(FALSE)
    /\ \A f \in 1..Len(heap) : Sym("z") \notin DOMAIN heap[f].mapping

\* (and #t (define y 1) #f (define z 1)) has returned false, y being bound
C3_Witness ==
    /\ last.tree = AndDefines /\ last.st = "ok" /\ last.v = Bool(FALSE)
    /\ Len(LastEvaluated) = 3
    /\ Sym("y") \in DOMAIN heap[last.frame].mapping

\* C4: or stops at the first operand whose value is not false and returns
\* true; it returns false only when every operand is false
C4_OrShortCircuits ==
    LastHeadIs(Str("or")) =>
        LET ev == LastEvaluated
            n == Len(ev)
        IN  /\ LeftToRight
            /\ \A i \in 1..n :
                  (ev[i].st = "ok" /\ ev[i].v # Bool(FALSE)) =>
                      i = n /\ last.st = "ok" /\ last.v = Bool(TRUE)
            /\ (last.st = "ok" /\ last.v = Bool(FALSE)) =>
                  /\ n = Len(LastOperands)
                  /\ \A i \in 1..n : ev[i].v = Bool(FALSE)

---------------------------------------------------------------------------
(* C5, C9 and C10: errors.                                                 *)

DivOneZero == Read(<<"(", "/", "1", "0", ")">>)
DivZero == Read(<<"(", "/", "0", ")">>)
DivThree == Read(<<"(", "/", "6", "3", "2", ")">>)
DivByProduct == Read(<<"(", "/", "6", "3", "x", ")">>)
DefX0 == Read(<<"(", "define", "x", "0", ")">>)
XOfUnbound == Read(<<"(", "x", "y", ")">>)
XOfDefine == Read(<<"(", "x", "(", "define", "y", "1", ")", ")">>)
FiveOfUnbound == Read(<<"(", "5", "q", ")">>)
TrueOfUnbound == Read(<<"(", "#t", "q", ")">>)
PairOfThree == Read(<<"(", "(", "cons", "1", "2", ")", "3", ")">>)
UnboundOfDefine == Read(<<"(", "u", "(", "define", "y", "1", ")", ")">>)
EmptyCombination == Read(<<"(", ")">>)
MulNothing == Read(<<"(", "*", ")">>)
LambdaNoBody == Read(<<"(", "lambda", "(", "x", ")", ")">>)

ProgsErr ==
    {DivOneZero, DivZero, DivThree, DivByProduct, DefX0, XOfUnbound, XOfDefine,
     FiveOfUnbound, TrueOfUnbound, PairOfThree, UnboundOfDefine,
     EmptyCombination, MulNothing, LambdaNoBody}

NextErr == \E p \in ProgsErr : Evaluate(p) \/ EvaluateDefault(p)
SpecErr == InitEval /\ [][NextErr]_vars

\* C5: an application of / whose operands are numbers with a zero divisor
\* (the only operand, or one of the operands after the first) fails with
\* SchemeEvaluationError
C5_DivideByZeroIsEvaluationError ==
    (/\ LastHeadIs(Native("/"))
     /\ Len(LastEvaluated) = Len(LastOperands)
     /\ LastOperands # <<>>
     /\ \A i \in 1..Len(LastEvaluated) :
           LastEvaluated[i].st = "ok" /\ LastEvaluated[i].v.k = "num"
     /\ \/ Len(LastEvaluated) = 1 /\ LastEvaluated[1].v.num = 0
        \/ \E i \in 2..Len(LastEvaluated) : LastEvaluated[i].v.num = 0)
    => last.st = "SchemeEvaluationError"

\* C10: evaluate returns a value or fails with SchemeNameError or
\* SchemeEvaluationError
C10_OnlySchemeErrors ==
    last.st \in {"none", "ok", "SchemeNameError", "SchemeEvaluationError"}

\* the head of the tree of the step's call has no binding in the chain of
\* its frame
HeadUnbound ==
    /\ last'.tree.list[1].k = "sym"
    /\ ~is_defined(StartHeap, last'.frame, last'.tree.list[1])

\* the head of the tree of the step's call was evaluated to a number, a
\* Boolean or a Pair
HeadNotProcedure ==
    /\ Direct(last'.trace) # <<>>
    /\ Direct(last'.trace)[1].tree = last'.tree.list[1]
    /\ Direct(last'.trace)[1].st = "ok"
    /\ Direct(last'.trace)[1].v.k \in {"num", "bool", "pair"}

\* the step evaluated nothing and bound nothing
NothingEvaluated == Direct(last'.trace) = <<>> /\ heap' = StartHeap

\* C9 as claimed: an unbound head fails with SchemeNameError before any
\* operand is evaluated; a head that is a number literal or evaluates to a
\* number, a Boolean or a Pair fails with SchemeEvaluationError whatever the
\* operands are
C9_HeadDispatchAnyOperands ==
    [][(last'.tree.k = "list" /\ last'.tree.list # <<>>) =>
          /\ HeadUnbound => last'.st = "SchemeNameError" /\ NothingEvaluated
          /\ (last'.tree.list[1].k = "num" \/ HeadNotProcedure) =>
                last'.st = "SchemeEvaluationError"]_vars

\* C9 as amended: an unbound head fails with SchemeNameError, and a number
\* literal as head with SchemeEvaluationError, before anything is evaluated;
\* when the head evaluates to a number, a Boolean or a Pair the operands are
\* evaluated from the left, the first that fails gives the call its error,
\* and the call fails with SchemeEvaluationError once all have a value
C9_HeadDispatch ==
    [][(last'.tree.k = "list" /\ last'.tree.list # <<>>) =>
          /\ HeadUnbound => last'.st = "SchemeNameError" /\ NothingEvaluated
          /\ last'.tree.list[1].k = "num" =>
                last'.st = "SchemeEvaluationError" /\ NothingEvaluated
          /\ HeadNotProcedure =>
                LET ev == LastEvaluated'
                IN  /\ LeftToRight'
                    /\ IF \A i \in 1..Len(ev) : ev[i].st = "ok"
                       THEN /\ Len(ev) = Len(LastOperands')
                            /\ last'.st = "SchemeEvaluationError"
                       ELSE last'.st = ev[Len(ev)].st]_vars

\* (x (define y 1)) has failed as not callable, x being 0, and y is bound
C9_Witness ==
    /\ last.tree = XOfDefine /\ last.frame = SessionFrame
    /\ last.st = "SchemeEvaluationError"
    /\ LastHeadIs(Num(0))
    /\ Sym("y") \in DOMAIN heap[SessionFrame].mapping

====
